---- MODULE Spec2Model ----
(***************************************************************************)
(* A model of riak/riak_object.py: the vector clock (VClock), the          *)
(* delegation of fields and methods of a RiakObject to its sole sibling    *)
(* (content_property, content_method), and the RiakObject operations       *)
(* exists, resolver, store, reload, delete, clear, __hash__, __eq__ and   *)
(* __ne__.                                                                 *)
(*                                                                         *)
(* RiakContent (riak/content.py) and the client (riak/client) are not part *)
(* of riak_object.py.  A sibling is a record of plain attributes, and the  *)
(* client's get, put and delete are nondeterministic: each either raises   *)
(* and leaves the object alone, or returns after updating the object the   *)
(* way a response from Riak can.                                           *)
(***************************************************************************)
EXTENDS Integers, Sequences, FiniteSets, TLC

\* ------------------------------------------------------------------------
\* Bounds

\* The largest number of siblings a response from Riak carries.
MaxSiblings == 2

\* ------------------------------------------------------------------------
\* Python values.  Every value has the same shape, so that any two of them
\* can be compared.

PyNone == [t |-> "None", s |-> "", c |-> {}]
PyStr(x) == [t |-> "str", s |-> x, c |-> {}]
PySet(x) == [t |-> "set", s |-> "", c |-> x]
PyInt(x) == [t |-> "int", s |-> x, c |-> {}]
PyBool(b) == [t |-> "bool", s |-> IF b THEN "True" ELSE "False", c |-> {}]
PyFn(x) == [t |-> "function", s |-> x, c |-> {}]
PyBytes(x) == [t |-> "bytes", s |-> "", c |-> {x}]

\* ------------------------------------------------------------------------
\* base64, as base64.b64encode and base64.b64decode compute it.  A byte
\* string is a sequence of numbers in 0..255, a text a sequence of
\* one-character strings.

Alphabet ==
    << "A", "B", "C", "D", "E", "F", "G", "H", "I", "J", "K", "L", "M",
       "N", "O", "P", "Q", "R", "S", "T", "U", "V", "W", "X", "Y", "Z",
       "a", "b", "c", "d", "e", "f", "g", "h", "i", "j", "k", "l", "m",
       "n", "o", "p", "q", "r", "s", "t", "u", "v", "w", "x", "y", "z",
       "0", "1", "2", "3", "4", "5", "6", "7", "8", "9", "+", "/" >>

Pad == "="

\* The 6-bit value of a character of the alphabet.
Sextet(ch) == (CHOOSE i \in 1..64 : Alphabet[i] = ch) - 1

IsB64Char(ch) == \E i \in 1..64 : Alphabet[i] = ch

RECURSIVE b64encode(_)
b64encode(bs) ==
    IF Len(bs) = 0 THEN <<>>
    ELSE IF Len(bs) = 1 THEN
        << Alphabet[(bs[1] \div 4) + 1],
           Alphabet[((bs[1] % 4) * 16) + 1], Pad, Pad >>
    ELSE IF Len(bs) = 2 THEN
        << Alphabet[(bs[1] \div 4) + 1],
           Alphabet[((bs[1] % 4) * 16) + (bs[2] \div 16) + 1],
           Alphabet[((bs[2] % 16) * 4) + 1], Pad >>
    ELSE
        << Alphabet[(bs[1] \div 4) + 1],
           Alphabet[((bs[1] % 4) * 16) + (bs[2] \div 16) + 1],
           Alphabet[((bs[2] % 16) * 4) + (bs[3] \div 64) + 1],
           Alphabet[(bs[3] % 64) + 1] >>
        \o b64encode(SubSeq(bs, 4, Len(bs)))

\* A text b64decode accepts: whole groups of four characters, padded only
\* in the last one.  (b64decode raises binascii.Error on wrong padding.)
B64Valid(cs) ==
    /\ Len(cs) % 4 = 0
    /\ \A i \in 1..Len(cs) :
          \/ IsB64Char(cs[i])
          \/ /\ cs[i] = Pad
             /\ i > Len(cs) - 2
             /\ \A j \in i..Len(cs) : cs[j] = Pad
             /\ i % 4 \in {0, 3}

RECURSIVE b64decode(_)
b64decode(cs) ==
    IF Len(cs) = 0 THEN <<>>
    ELSE
        LET a == Sextet(cs[1])
            b == Sextet(cs[2])
        IN  IF cs[3] = Pad THEN
                << (a * 4) + (b \div 16) >>
            ELSE IF cs[4] = Pad THEN
                << (a * 4) + (b \div 16),
                   ((b % 16) * 16) + (Sextet(cs[3]) \div 4) >>
            ELSE
                << (a * 4) + (b \div 16),
                   ((b % 16) * 16) + (Sextet(cs[3]) \div 4),
                   ((Sextet(cs[3]) % 4) * 64) + Sextet(cs[4]) >>
                \o b64decode(SubSeq(cs, 5, Len(cs)))

\* ------------------------------------------------------------------------
\* VClock

\* The names VClock._decoders and VClock._encoders have as keys.
Encodings == {"base64", "binary"}

\* VClock._decoders[encoding].__call__(value): 'binary' is bytes(value),
\* which for a byte string is that byte string.
_decoders(encoding, value) ==
    IF encoding = "base64" THEN b64decode(value) ELSE value

\* VClock.__init__: the object made, with the identity Python gives it.
VClock(id, value, encoding) ==
    [id |-> id, _vclock |-> _decoders(encoding, value)]

\* No vclock: RiakObject.vclock = None.
NoVClock == [id |-> 0, _vclock |-> <<>>]

\* ------------------------------------------------------------------------
\* Siblings (RiakContent)

\* The fields content_property delegates: three of the ten of RiakObject,
\* which all are made by the same content_property.
Fields == {"data", "content_type", "links"}

Link1 == <<"b", "k2", "tag">>
Index1 == <<"idx_bin", "1">>

\* The values a caller sets a field to.
FieldValues(name) ==
    CASE name = "data" -> {PyNone, PyStr("a"), PyStr("b")}
      [] name = "content_type" -> {PyNone, PyStr("text/plain")}
      [] name = "links" -> {PySet({}), PySet({Link1})}

\* RiakContent(self): a fresh sibling.
RiakContent ==
    [data |-> PyNone, content_type |-> PyNone, links |-> PySet({}),
     indexes |-> PySet({}), exists |-> FALSE]

\* The siblings a response from Riak carries: two values and a tombstone.
Fetched ==
    { [data |-> PyStr("a"), content_type |-> PyStr("text/plain"),
       links |-> PySet({}), indexes |-> PySet({}), exists |-> TRUE],
      [data |-> PyStr("b"), content_type |-> PyStr("text/plain"),
       links |-> PySet({}), indexes |-> PySet({}), exists |-> TRUE],
      [data |-> PyNone, content_type |-> PyNone,
       links |-> PySet({}), indexes |-> PySet({}), exists |-> FALSE] }

\* The vector clocks a response from Riak carries, as <<encoding, value>>:
\* the clock b"\x01" in both encodings, the clock b"\x02" in one.
Wire1 == <<"binary", <<1>>>>
Wire1Base64 == <<"base64", <<"A", "Q", "=", "=">>>>
Wire2Base64 == <<"base64", <<"A", "g", "=", "=">>>>

WireVClocks == {Wire1, Wire2Base64}

\* The methods content_method delegates, with the arguments they are
\* called with.
Methods ==
    { [name |-> "add_link", arg |-> {Link1}],
      [name |-> "add_index", arg |-> {Index1}],
      [name |-> "set_index", arg |-> {Index1}],
      [name |-> "remove_index", arg |-> {Index1}],
      [name |-> "remove_indexes", arg |-> {Index1}] }

\* getattr(content, name).__call__(*args): the sibling after the call.
\* set_index replaces the values of the index name, add_index and add_link
\* add an entry, remove_index removes it when it is there.
CallMethod(content, m) ==
    CASE m.name = "add_link" ->
            [content EXCEPT !.links = PySet(content.links.c \cup m.arg)]
      [] m.name = "add_index" ->
            [content EXCEPT !.indexes = PySet(content.indexes.c \cup m.arg)]
      [] m.name = "set_index" ->
            [content EXCEPT !.indexes =
                PySet({e \in content.indexes.c :
                          \A n \in m.arg : e[1] # n[1]} \cup m.arg)]
      [] OTHER ->
            [content EXCEPT !.indexes = PySet(content.indexes.c \ m.arg)]

\* ------------------------------------------------------------------------
\* Resolvers

\* callable(value)
callable(value) == value.t = "function"

\* A resolver reduces the siblings of a conflicted object.  Two of them:
\* one keeps the sibling fetched last, one keeps the siblings whose data
\* is "b".
KeepLast == PyFn("keep_last")
PickB == PyFn("pick_b")

\* A value that is neither None nor callable.
NotCallable == PyStr("not a function")

HoldsB(content) == content.data = PyStr("b")

\* The siblings a resolver leaves of the siblings s.
Resolved(f, s) ==
    IF f = PickB THEN SelectSeq(s, HoldsB)
    ELSE IF Len(s) = 0 THEN s
    ELSE << s[Len(s)] >>

\* ------------------------------------------------------------------------
\* State

VARIABLES
    siblings,    \* RiakObject.siblings
    vclock,      \* RiakObject.vclock
    key,         \* RiakObject.key
    bucket,      \* RiakObject.bucket (its name)
    _resolver,   \* RiakObject._resolver
    bucket_resolver,  \* self.bucket.resolver
    other,       \* a second object: its class, key, bucket and vclock
    op,          \* the last operation called, with its arguments
    preLen,      \* len(self.siblings) when it was called
    ret,         \* what it returned or raised
    calls,       \* the calls it made to the client
    lastSet,     \* per field, the value last set on the sole sibling
    scene        \* how far a conflict fetched by reload has been resolved

vars ==
    << siblings, vclock, key, bucket, _resolver, bucket_resolver, other, op,
       preLen, ret, calls, lastSet, scene >>

Keys == {"k1", "k2"}
Buckets == {"b1", "b2"}

Return(v) == [err |-> "none", val |-> v]
Raise(e) == [err |-> e, val |-> PyNone]
Self == PyStr("self")

NoneSet == [f \in Fields |-> [known |-> FALSE, val |-> PyNone]]

\* No conflict is being followed.
Idle == [stage |-> "idle", T |-> NoVClock, s |-> <<>>]

\* The operation `name` was called with `args`, made the calls `c` to the
\* client and ended with `r`.
Called(name, args, r, c) ==
    /\ op' = [name |-> name, args |-> args]
    /\ preLen' = Len(siblings)
    /\ ret' = r
    /\ calls' = c

\* RiakObject.__init__(client, bucket, key)
__init__(b, k) ==
    /\ _resolver = PyNone
    /\ bucket = b
    /\ key = k
    /\ vclock = NoVClock
    /\ siblings = << RiakContent >>

\* The second object, constructed.
Other(cls, b, k) ==
    [cls |-> cls, key |-> k, bucket |-> b, vclock |-> NoVClock]

Constructed ==
    /\ op = [name |-> "__init__", args |-> PyNone]
    /\ preLen = 0
    /\ ret = Return(Self)
    /\ calls = <<>>
    /\ lastSet = NoneSet
    /\ scene = Idle

Init ==
    /\ __init__("b1", "k1")
    /\ other = Other("RiakObject", "b1", "k1")
    /\ bucket_resolver = KeepLast
    /\ Constructed

\* ------------------------------------------------------------------------
\* content_property

\* (mutant) the setter does not make a sibling in an empty object
MaterializeNothing(s) == s

\* (mutant) the setter always makes a sibling of its own
MaterializeAnother(s) == Append(s, RiakContent)

\* _setter, lines 14-17: the siblings the value is set in.
Materialize(s) == IF Len(s) = 0 THEN << RiakContent >> ELSE s

\* (mutant) the check is for an empty object, not for a single sibling
InConflictWhenEmpty(s) == Len(s) = 0

\* _setter, line 18; _getter, line 25; _delegate, line 38; store, line 260.
InConflict(s) == Len(s) # 1

\* _getter, lines 23-24.
IsEmpty(s) == Len(s) = 0

\* (mutant) every property sets the data of the sibling
SetAttrData(s, name, value) == [s EXCEPT ![1] = [@ EXCEPT !.data = value]]

\* setattr(self.siblings[0], name, value)
SetAttr(s, name, value) == [s EXCEPT ![1] = [@ EXCEPT ![name] = value]]

\* (mutant) every property reads the data of the sibling
GetAttrData(s, name) == s[1].data

\* getattr(self.siblings[0], name)
GetAttr(s, name) == s[1][name]

_setter(name, value) ==
    LET s == Materialize(siblings)
    IN  /\ IF InConflict(s)
           THEN /\ Called("set", [name |-> name, value |-> value],
                          Raise("ConflictError"), <<>>)
                /\ siblings' = s
                /\ UNCHANGED lastSet
           ELSE /\ Called("set", [name |-> name, value |-> value],
                          Return(PyNone), <<>>)
                /\ siblings' = SetAttr(s, name, value)
                /\ lastSet' =
                      [(IF Len(siblings) = 0 THEN NoneSet ELSE lastSet)
                          EXCEPT ![name] = [known |-> TRUE, val |-> value]]
        /\ scene' = Idle
        /\ UNCHANGED << vclock, key, bucket, _resolver, bucket_resolver,
                        other >>

_getter(name) ==
    /\ IF IsEmpty(siblings)
       THEN Called("get", [name |-> name], Return(PyNone), <<>>)
       ELSE IF InConflict(siblings)
       THEN Called("get", [name |-> name], Raise("ConflictError"), <<>>)
       ELSE Called("get", [name |-> name],
                   Return(GetAttr(siblings, name)), <<>>)
    /\ UNCHANGED << siblings, vclock, key, bucket, _resolver, bucket_resolver,
                    other, lastSet, scene >>

\* ------------------------------------------------------------------------
\* content_method

\* (mutant) the method makes a sibling in an empty object, as the setter
\* does
_delegateMaterializes(m) ==
    LET s == Materialize(siblings)
    IN  /\ IF InConflict(s)
           THEN /\ Called("call", m, Raise("ConflictError"), <<>>)
                /\ UNCHANGED << siblings, lastSet >>
           ELSE /\ Called("call", m, Return(PyNone), <<>>)
                /\ siblings' = [s EXCEPT ![1] = CallMethod(@, m)]
                /\ lastSet' = NoneSet
        /\ scene' = Idle
        /\ UNCHANGED << vclock, key, bucket, _resolver, bucket_resolver,
                        other >>

_delegate(m) ==
    /\ IF InConflict(siblings)
       THEN /\ Called("call", m, Raise("ConflictError"), <<>>)
            /\ UNCHANGED << siblings, lastSet >>
       ELSE /\ Called("call", m, Return(PyNone), <<>>)
            /\ siblings' = [siblings EXCEPT ![1] = CallMethod(@, m)]
            \* add_link changes in place the list last set as links
            /\ lastSet' =
                  [lastSet EXCEPT !["links"] =
                      IF @.known
                      THEN [@ EXCEPT !.val = CallMethod(siblings[1], m).links]
                      ELSE @]
    /\ scene' = Idle
    /\ UNCHANGED << vclock, key, bucket, _resolver, bucket_resolver,
                    other >>

\* ------------------------------------------------------------------------
\* A caller sets an attribute of the sole sibling itself:
\* obj.siblings[0].data = value

SetOnSibling(name, value) ==
    /\ Len(siblings) = 1
    /\ Called("sibling.set", [name |-> name, value |-> value],
              Return(PyNone), <<>>)
    /\ siblings' = SetAttr(siblings, name, value)
    /\ lastSet' = [lastSet EXCEPT ![name] = [known |-> TRUE, val |-> value]]
    /\ scene' = Idle
    /\ UNCHANGED << vclock, key, bucket, _resolver, bucket_resolver,
                    other >>

\* ------------------------------------------------------------------------
\* exists

\* (mutant) siblings that all are tombstones do not exist
_existsAnyLive(s) == \E i \in 1..Len(s) : s[i].exists

_exists(s) ==
    IF Len(s) = 0 THEN FALSE
    ELSE IF Len(s) > 1 THEN TRUE
    ELSE s[1].exists

exists ==
    /\ Called("exists", PyNone, Return(PyBool(_exists(siblings))), <<>>)
    /\ UNCHANGED << siblings, vclock, key, bucket, _resolver, bucket_resolver,
                    other, lastSet, scene >>

\* ------------------------------------------------------------------------
\* The client (self.client): get, put and delete

\* The identity of a new object: one no object in use has.
FreshId ==
    CHOOSE i \in 1..3 :
        /\ i \notin {vclock.id, other.vclock.id}
        /\ \A j \in 1..(i - 1) : j \in {vclock.id, other.vclock.id}

SiblingSeqs == UNION { [1..n -> Fetched] : n \in 1..MaxSiblings }

NoWire == <<"binary", <<>>>>

\* What a call to the client does: it raises, or it returns and leaves the
\* object alone ("ok", "notfound"), or it returns and fills the object in
\* ("filled").
Outcomes ==
    { [kind |-> k, siblings |-> <<>>, wire |-> NoWire] :
        k \in {"raise", "ok", "notfound"} }
    \cup { [kind |-> "filled", siblings |-> s, wire |-> w] :
             s \in SiblingSeqs, w \in WireVClocks }

\* The siblings and the vclock of the object when the client returns.
FilledSiblings(out) ==
    CASE out.kind = "filled" -> out.siblings
      [] out.kind = "notfound" -> <<>>
      [] OTHER -> siblings

FilledVClock(out) ==
    IF out.kind = "filled"
    THEN VClock(FreshId, out.wire[2], out.wire[1])
    ELSE vclock

\* client.get either raises, finds nothing or fills the object in.
GetOutcomes == { out \in Outcomes : out.kind # "ok" }

\* client.put either raises, is acknowledged, or (return_body) fills the
\* object in with what Riak holds.
PutOutcomes(a) ==
    { out \in Outcomes :
        /\ out.kind # "notfound"
        /\ out.kind = "filled" => a.return_body = PyBool(TRUE) }

\* client.delete raises or reports what it did.
DeleteOutcomes == { out \in Outcomes : out.kind # "filled" }

\* The parameters of client.get that reload does not name take their
\* defaults: get(robj, r=None, pr=None, timeout=None, basic_quorum=None,
\* notfound_ok=None).
GetDefaults ==
    [r |-> PyNone, pr |-> PyNone, timeout |-> PyNone,
     basic_quorum |-> PyNone, notfound_ok |-> PyNone]

Call(fn, kwargs) == [fn |-> fn, args |-> kwargs]

\* ------------------------------------------------------------------------
\* store

StoreArgs ==
    { [w |-> PyNone, dw |-> PyNone, pw |-> PyNone,
       return_body |-> PyBool(TRUE), if_none_match |-> PyBool(FALSE),
       timeout |-> PyNone],
      [w |-> PyInt("3"), dw |-> PyInt("2"), pw |-> PyInt("1"),
       return_body |-> PyBool(FALSE), if_none_match |-> PyBool(TRUE),
       timeout |-> PyInt("500")] }

\* (mutant) w and dw change places
PutKwargsSwapped(a) ==
    [w |-> a.dw, dw |-> a.w, pw |-> a.pw, return_body |-> a.return_body,
     if_none_match |-> a.if_none_match, timeout |-> a.timeout]

\* store, lines 264-267: the keyword arguments of self.client.put
PutKwargs(a) ==
    [w |-> a.w, dw |-> a.dw, pw |-> a.pw, return_body |-> a.return_body,
     if_none_match |-> a.if_none_match, timeout |-> a.timeout]

\* (mutant) store calls the client before it looks at the siblings
storePutsFirst(a, out) ==
    /\ IF InConflict(siblings)
       THEN /\ Called("store", a, Raise("ConflictError"),
                      << Call("put", PutKwargs(a)) >>)
            /\ UNCHANGED << siblings, vclock, lastSet >>
       ELSE /\ out \in PutOutcomes(a)
            /\ Called("store", a,
                      IF out.kind = "raise" THEN Raise("TransportError")
                      ELSE Return(Self),
                      << Call("put", PutKwargs(a)) >>)
            /\ siblings' = FilledSiblings(out)
            /\ vclock' = FilledVClock(out)
            /\ lastSet' = IF out.kind = "filled" THEN NoneSet ELSE lastSet
    /\ scene' = IF scene.stage = "resolved"
                THEN [scene EXCEPT !.stage = "stored"]
                ELSE Idle
    /\ UNCHANGED << key, bucket, _resolver, bucket_resolver,
                    other >>

store(a, out) ==
    /\ IF InConflict(siblings)
       THEN /\ Called("store", a, Raise("ConflictError"), <<>>)
            /\ UNCHANGED << siblings, vclock, lastSet >>
       ELSE /\ out \in PutOutcomes(a)
            /\ Called("store", a,
                      IF out.kind = "raise" THEN Raise("TransportError")
                      ELSE Return(Self),
                      << Call("put", PutKwargs(a)) >>)
            /\ siblings' = FilledSiblings(out)
            /\ vclock' = FilledVClock(out)
            /\ lastSet' = IF out.kind = "filled" THEN NoneSet ELSE lastSet
    /\ scene' = IF scene.stage = "resolved"
                THEN [scene EXCEPT !.stage = "stored"]
                ELSE Idle
    /\ UNCHANGED << key, bucket, _resolver, bucket_resolver,
                    other >>

\* ------------------------------------------------------------------------
\* reload

ReloadArgs ==
    { [r |-> PyNone, pr |-> PyNone, timeout |-> PyNone,
       basic_quorum |-> PyNone, notfound_ok |-> PyNone],
      [r |-> PyInt("2"), pr |-> PyInt("1"), timeout |-> PyInt("500"),
       basic_quorum |-> PyBool(TRUE), notfound_ok |-> PyBool(FALSE)] }

\* reload, line 299: the keyword arguments of self.client.get
GetKwargs(a) == [r |-> a.r, pr |-> a.pr, timeout |-> a.timeout]

\* The conflict reload fetched: two siblings of different data, and the
\* vclock fetched with them.
SceneFetched(out) ==
    IF /\ out.kind = "filled"
       /\ Len(out.siblings) = 2
       /\ out.siblings[1].data # out.siblings[2].data
    THEN [stage |-> "conflicted", T |-> FilledVClock(out), s |-> out.siblings]
    ELSE Idle

\* (mutant) reload checks for a single sibling, as store does
reloadChecked(a, out) ==
    /\ out \in GetOutcomes
    /\ IF InConflict(siblings)
       THEN /\ Called("reload", a, Raise("ConflictError"), <<>>)
            /\ UNCHANGED << siblings, vclock, lastSet >>
       ELSE /\ Called("reload", a,
                      IF out.kind = "raise" THEN Raise("TransportError")
                      ELSE Return(Self),
                      << Call("get", GetKwargs(a) @@ GetDefaults) >>)
            /\ siblings' = FilledSiblings(out)
            /\ vclock' = FilledVClock(out)
            /\ lastSet' = IF out.kind = "raise" THEN lastSet ELSE NoneSet
    /\ scene' = SceneFetched(out)
    /\ UNCHANGED << key, bucket, _resolver, bucket_resolver,
                    other >>

reload(a, out) ==
    /\ out \in GetOutcomes
    /\ Called("reload", a,
              IF out.kind = "raise" THEN Raise("TransportError")
              ELSE Return(Self),
              << Call("get", GetKwargs(a) @@ GetDefaults) >>)
    /\ siblings' = FilledSiblings(out)
    /\ vclock' = FilledVClock(out)
    /\ lastSet' = IF out.kind = "raise" THEN lastSet ELSE NoneSet
    /\ scene' = SceneFetched(out)
    /\ UNCHANGED << key, bucket, _resolver, bucket_resolver,
                    other >>

\* ------------------------------------------------------------------------
\* delete and clear

DeleteArgs ==
    { [r |-> PyNone, w |-> PyNone, dw |-> PyNone, pr |-> PyNone,
       pw |-> PyNone, timeout |-> PyNone],
      [r |-> PyInt("1"), w |-> PyInt("2"), dw |-> PyInt("3"),
       pr |-> PyInt("4"), pw |-> PyInt("5"), timeout |-> PyInt("500")] }

\* delete, lines 328-329: the keyword arguments of self.client.delete
DeleteKwargs(a) ==
    [r |-> a.r, w |-> a.w, dw |-> a.dw, pr |-> a.pr, pw |-> a.pw,
     timeout |-> a.timeout]

\* (mutant) clear leaves the siblings in place
ClearedNothing(s) == s

\* clear, line 339: self.siblings = []
Cleared(s) == <<>>

delete(a, out) ==
    /\ out \in DeleteOutcomes
    /\ IF out.kind = "raise"
       THEN /\ Called("delete", a, Raise("TransportError"),
                      << Call("delete", DeleteKwargs(a)) >>)
            /\ UNCHANGED << siblings, lastSet >>
       ELSE /\ Called("delete", a, Return(Self),
                      << Call("delete", DeleteKwargs(a)) >>)
            /\ siblings' = Cleared(siblings)
            /\ lastSet' = NoneSet
    /\ scene' = Idle
    /\ UNCHANGED << vclock, key, bucket, _resolver, bucket_resolver,
                    other >>

clear ==
    /\ Called("clear", PyNone, Return(Self), <<>>)
    /\ siblings' = Cleared(siblings)
    /\ lastSet' = NoneSet
    /\ scene' = Idle
    /\ UNCHANGED << vclock, key, bucket, _resolver, bucket_resolver,
                    other >>

\* ------------------------------------------------------------------------
\* resolver

\* (mutant) the resolver of the bucket is always the one in use
GetResolverOfBucket(rec, bkt) == Return(bkt)

\* _get_resolver, lines 214-220
GetResolver(rec, bkt) ==
    IF callable(rec) THEN Return(rec)
    ELSE IF rec = PyNone THEN Return(bkt)
    ELSE Raise("TypeError")

_get_resolver ==
    /\ Called("resolver.get", PyNone,
              GetResolver(_resolver, bucket_resolver), <<>>)
    /\ UNCHANGED << siblings, vclock, key, bucket, _resolver, bucket_resolver,
                    other, lastSet, scene >>

\* (mutant) any value is taken as a resolver
SetResolverAny(value) == TRUE

\* _set_resolver, line 223
SetResolverOk(value) == value = PyNone \/ callable(value)

_set_resolver(value) ==
    /\ IF SetResolverOk(value)
       THEN /\ Called("resolver.set", [value |-> value], Return(PyNone), <<>>)
            /\ _resolver' = value
       ELSE /\ Called("resolver.set", [value |-> value], Raise("TypeError"),
                      <<>>)
            /\ UNCHANGED _resolver
    /\ UNCHANGED << siblings, vclock, key, bucket, bucket_resolver, other,
                    lastSet, scene >>

\* bucket.resolver = value: the resolver of the bucket is configured anew.
SetBucketResolver(value) ==
    /\ bucket_resolver # value
    /\ bucket_resolver' = value
    /\ Called("bucket.resolver.set", [value |-> value], Return(PyNone), <<>>)
    /\ UNCHANGED << siblings, vclock, key, bucket, _resolver, other, lastSet,
                    scene >>

\* The conflict fetched, after resolution with the resolver that was set
\* (on the object, or else on the bucket), when that resolver leaves one
\* of the siblings fetched.
SceneResolved ==
    LET f == IF _resolver # PyNone THEN _resolver ELSE bucket_resolver
    IN  IF /\ scene.stage = "conflicted"
           /\ Len(Resolved(f, scene.s)) = 1
        THEN [scene EXCEPT !.stage = "resolved", !.s = Resolved(f, scene.s)]
        ELSE Idle

\* Resolution is invoked on an object in conflict: the resolver of the
\* object, when there is one, replaces the siblings with the ones it leaves.
Resolve ==
    LET r == GetResolver(_resolver, bucket_resolver)
    IN  /\ Len(siblings) > 1
        /\ r.val # PyNone
        /\ Called("resolve", PyNone, Return(PyNone), <<>>)
        /\ siblings' = Resolved(r.val, siblings)
        /\ lastSet' = NoneSet
        /\ scene' = SceneResolved
        /\ UNCHANGED << vclock, key, bucket, _resolver, bucket_resolver,
                        other >>

\* ------------------------------------------------------------------------
\* The object in use

Next ==
    \/ \E name \in Fields : \E value \in FieldValues(name) :
          _setter(name, value)
    \/ \E name \in Fields : _getter(name)
    \/ \E m \in Methods : _delegate(m)
    \/ \E name \in Fields : \E value \in FieldValues(name) :
          SetOnSibling(name, value)
    \/ exists
    \/ \E a \in StoreArgs : \E out \in PutOutcomes(a) : store(a, out)
    \/ \E a \in ReloadArgs : \E out \in GetOutcomes : reload(a, out)
    \/ \E a \in DeleteArgs : \E out \in DeleteOutcomes : delete(a, out)
    \/ clear
    \/ Resolve

Spec == Init /\ [][Next]_vars

\* ------------------------------------------------------------------------
\* The object used without its client: the properties and the methods of
\* the sibling, exists, clear and the resolver.

NextLocal ==
    \/ \E name \in Fields : \E value \in FieldValues(name) :
          _setter(name, value)
    \/ \E name \in Fields : _getter(name)
    \/ \E m \in Methods : _delegate(m)
    \/ exists
    \/ clear
    \/ _get_resolver
    \/ \E value \in {PyNone, PickB, NotCallable} : _set_resolver(value)

SpecLocal == Init /\ [][NextLocal]_vars

\* ------------------------------------------------------------------------
\* The object fetched, resolved and stored, with the resolvers of the
\* object and of the bucket set anew in between.

InitResolve ==
    /\ __init__("b1", "k1")
    /\ other = Other("RiakObject", "b1", "k1")
    /\ bucket_resolver \in {PyNone, KeepLast}
    /\ Constructed

NextResolve ==
    \/ \E a \in ReloadArgs :
          \E out \in {o \in GetOutcomes : o.wire # Wire2Base64} :
             reload(a, out)
    \/ _getter("data")
    \/ _get_resolver
    \/ \E value \in {PyNone, PickB, NotCallable} : _set_resolver(value)
    \/ \E value \in {PyNone, KeepLast} : SetBucketResolver(value)
    \/ Resolve
    \/ \E a \in StoreArgs : \E out \in PutOutcomes(a) : store(a, out)

SpecResolve == InitResolve /\ [][NextResolve]_vars

\* ------------------------------------------------------------------------
\* __hash__, __eq__ and __ne__, and the comparison of two vclocks

\* hash(self.vclock): VClock defines neither __hash__ nor __eq__, so its
\* hash is the one of object, made from the identity of the object;
\* hash(None) is a constant.
HashVClock(v) == IF v = NoVClock THEN 0 ELSE v.id

\* hash((key, bucket, vclock)).  The hash of a tuple is made from the
\* hashes of its items, the one of a string from its characters; two
\* different tuples of hashes are taken to have different hashes.
__hash__(k, b, v) == << k, b, HashVClock(v) >>

\* a == b for two vclocks: the == of object, which is `a is b`.
VClockEq(a, b) == a.id = b.id

IsInstance(o) == o.cls = "RiakObject"

__eq__ ==
    /\ Called("__eq__", PyNone,
              Return(PyBool(
                  IF IsInstance(other)
                  THEN __hash__(key, bucket, vclock)
                          = __hash__(other.key, other.bucket, other.vclock)
                  ELSE FALSE)),
              <<>>)
    /\ UNCHANGED << siblings, vclock, key, bucket, _resolver, bucket_resolver,
                    other, lastSet, scene >>

__ne__ ==
    /\ Called("__ne__", PyNone,
              Return(PyBool(
                  IF IsInstance(other)
                  THEN __hash__(key, bucket, vclock)
                          # __hash__(other.key, other.bucket, other.vclock)
                  ELSE TRUE)),
              <<>>)
    /\ UNCHANGED << siblings, vclock, key, bucket, _resolver, bucket_resolver,
                    other, lastSet, scene >>

\* self.vclock == other.vclock
CompareVClocks ==
    /\ IsInstance(other)
    /\ Called("vclock.__eq__", PyNone,
              Return(PyBool(VClockEq(vclock, other.vclock))), <<>>)
    /\ UNCHANGED << siblings, vclock, key, bucket, _resolver, bucket_resolver,
                    other, lastSet, scene >>

\* The client fills the second object in: a new VClock, made of what Riak
\* sent.
FetchOther(w) ==
    /\ IsInstance(other)
    /\ other' = [other EXCEPT !.vclock = VClock(FreshId, w[2], w[1])]
    /\ Called("other.reload", PyNone, Return(Self), <<>>)
    /\ UNCHANGED << siblings, vclock, key, bucket, _resolver, bucket_resolver,
                    lastSet, scene >>

\* other.vclock = self.vclock: both objects hold the same VClock.
ShareVClock ==
    /\ IsInstance(other)
    /\ other' = [other EXCEPT !.vclock = vclock]
    /\ Called("other.vclock", PyNone, Return(PyNone), <<>>)
    /\ UNCHANGED << siblings, vclock, key, bucket, _resolver, bucket_resolver,
                    lastSet, scene >>

\* Two objects, compared as the first is reloaded and the second filled in.
InitEq ==
    /\ __init__("b1", "k1")
    /\ \E cls \in {"RiakObject", "str"}, b \in Buckets, k \in Keys :
          other = Other(cls, b, k)
    /\ bucket_resolver = KeepLast
    /\ Constructed

NextEq ==
    \/ \E a \in ReloadArgs :
          \E out \in {o \in GetOutcomes : Len(o.siblings) <= 1} :
             reload(a, out)
    \/ \E w \in WireVClocks \cup {Wire1Base64} : FetchOther(w)
    \/ ShareVClock
    \/ __eq__
    \/ __ne__
    \/ CompareVClocks

SpecEq == InitEq /\ [][NextEq]_vars

\* ------------------------------------------------------------------------
\* VClock: decoding, encoding and decoding again

\* The longest vector clock decoded.
MaxBytes == 3

ByteVals == {1, 255}

ByteSeqs == UNION { [1..n -> ByteVals] : n \in 0..MaxBytes }

\* The texts handed to VClock as base64: the encodings of the byte
\* strings, a text whose last character carries bits b64decode drops
\* ("AR==" for b"\x01"), and a text of wrong padding.
Base64Texts ==
    { b64encode(bs) : bs \in ByteSeqs }
    \cup { <<"A", "R", "=", "=">>, <<"A", "Q">> }

\* The encodings a caller names; "hex" is not one VClock has.
EncodingNames == Encodings \cup {"hex"}

\* VClock._encoders[encoding].__call__(self._vclock)
_encoders(encoding, vc) ==
    IF encoding = "base64" THEN b64encode(vc) ELSE vc

\* What VClock.__init__ raises: the lookup self._decoders[encoding] of a
\* name that is not a key raises KeyError, b64decode of a text of wrong
\* padding raises binascii.Error.
DecodeError(encoding, value) ==
    IF encoding \notin Encodings THEN "KeyError"
    ELSE IF encoding = "base64" /\ ~B64Valid(value) THEN "binascii.Error"
    ELSE "none"

\* What encode raises: ValueError for a name that is not a key.
EncodeError(encoding) ==
    IF encoding \in Encodings THEN "none" ELSE "ValueError"

\* self.vclock = VClock(value, encoding)
NewVClock(value, encoding) ==
    /\ IF DecodeError(encoding, value) = "none"
       THEN /\ Called("VClock", [encoding |-> encoding], Return(PyNone), <<>>)
            /\ vclock' = VClock(FreshId, value, encoding)
       ELSE /\ Called("VClock", [encoding |-> encoding],
                      Raise(DecodeError(encoding, value)), <<>>)
            /\ UNCHANGED vclock
    /\ UNCHANGED << siblings, key, bucket, _resolver, bucket_resolver, other,
                    lastSet, scene >>

\* self.vclock.encode(encoding)
encode(encoding) ==
    /\ vclock # NoVClock
    /\ IF EncodeError(encoding) = "none"
       THEN Called("encode", [encoding |-> encoding],
                   Return(PyBytes(_encoders(encoding, vclock._vclock))), <<>>)
       ELSE Called("encode", [encoding |-> encoding],
                   Raise(EncodeError(encoding)), <<>>)
    /\ UNCHANGED << siblings, vclock, key, bucket, _resolver, bucket_resolver,
                    other, lastSet, scene >>

\* other.vclock = VClock(self.vclock.encode(encoding), encoding), and then
\* other.vclock == self.vclock
RoundTrip(encoding) ==
    LET again == VClock(FreshId, _encoders(encoding, vclock._vclock), encoding)
    IN  /\ vclock # NoVClock
        /\ other' = [other EXCEPT !.vclock = again]
        /\ Called("roundtrip", [encoding |-> encoding],
                  Return(PyBool(VClockEq(again, vclock))), <<>>)
        /\ UNCHANGED << siblings, vclock, key, bucket, _resolver,
                        bucket_resolver, lastSet, scene >>

NextVClock ==
    \/ \E value \in ByteSeqs : NewVClock(value, "binary")
    \/ \E value \in Base64Texts : NewVClock(value, "base64")
    \/ NewVClock(<<"0", "1">>, "hex")
    \/ \E encoding \in EncodingNames : encode(encoding)
    \/ \E encoding \in Encodings : RoundTrip(encoding)

SpecVClock == Init /\ [][NextVClock]_vars

\* ------------------------------------------------------------------------
\* Properties of the object in use (Spec)

Accesses == {"get", "set", "call", "store"}

\* C1: whenever the object holds more than one sibling, a property getter,
\* a property setter, a delegated method (add_link, add_index, set_index,
\* remove_index, remove_indexes) and store() raise ConflictError.
C1_ConflictedAccessRaises ==
    (preLen > 1 /\ op.name \in Accesses) => ret.err = "ConflictError"

C1_Witness ==
    /\ preLen > 1
    /\ op.name = "call"
    /\ op.args.name = "add_link"
    /\ ret.err = "ConflictError"

\* C2: client.put is called by store() only, and only on an object with
\* exactly one sibling.  With no sibling or more than one, store() raises
\* ConflictError and calls nothing; with one sibling it calls client.put
\* once, with w, dw, pw, return_body, if_none_match and timeout as it got
\* them, and returns the object when client.put returns.
C2_StorePutsOnlyWhenResolved ==
    /\ \A i \in 1..Len(calls) :
          calls[i].fn = "put" => (op.name = "store" /\ preLen = 1)
    /\ op.name = "store" =>
          IF preLen # 1
          THEN ret.err = "ConflictError" /\ calls = <<>>
          ELSE /\ calls = << [fn |-> "put", args |-> op.args] >>
               /\ ret.err \in {"none", "TransportError"}
               /\ ret.err = "none" => ret.val = Self

C2_Witness ==
    /\ op.name = "store"
    /\ preLen = 1
    /\ op.args.w = PyInt("3")
    /\ Len(calls) = 1
    /\ ret = Return(Self)

\* C3 as claimed: after delete(), whatever the client's delete did (a
\* failure included), the object holds no sibling and exists is False.
C3_DeleteAlwaysClears ==
    op.name = "delete" => (Len(siblings) = 0 /\ ~_exists(siblings))

\* C3, amended: after a delete() whose call to the client returned,
\* whatever it reported, the object holds no sibling and exists is False;
\* when the call to the client raised, delete() raises that error and the
\* siblings are those the object held before.
C3_DeleteClearsWhenClientReturns ==
    op.name = "delete" =>
        IF ret.err = "none"
        THEN Len(siblings) = 0 /\ ~_exists(siblings)
        ELSE ret.err = "TransportError" /\ Len(siblings) = preLen

C3_Witness ==
    /\ op.name = "delete"
    /\ preLen > 1
    /\ ret = Return(Self)
    /\ Len(siblings) = 0

\* C4: reload() and delete() are allowed in every state.  Whatever the
\* number of siblings, neither raises ConflictError, each calls the client
\* exactly once (get, respectively delete), and each returns the object
\* when the client returns.
C4_ReloadDeleteAlwaysAllowed ==
    op.name \in {"reload", "delete"} =>
        /\ ret.err # "ConflictError"
        /\ Len(calls) = 1
        /\ calls[1].fn = (IF op.name = "reload" THEN "get" ELSE "delete")
        /\ ret.err = "none" => ret.val = Self

C4_Witness ==
    /\ op.name = "reload"
    /\ preLen > 1
    /\ ret = Return(Self)
    /\ Len(calls) = 1

\* C5 as claimed: the basic_quorum and notfound_ok that client.get
\* receives are those given to reload().
C5_ReloadPassesAllArguments ==
    op.name = "reload" =>
        /\ calls[1].args.r = op.args.r
        /\ calls[1].args.pr = op.args.pr
        /\ calls[1].args.timeout = op.args.timeout
        /\ calls[1].args.basic_quorum = op.args.basic_quorum
        /\ calls[1].args.notfound_ok = op.args.notfound_ok

\* C6: in every state, exists is False exactly when the object holds no
\* sibling, or holds one sibling that is a tombstone; with more than one
\* sibling it is True, also when all of them are tombstones.
C6_ExistsRule ==
    /\ ~_exists(siblings) <=>
          \/ Len(siblings) = 0
          \/ Len(siblings) = 1 /\ ~siblings[1].exists
    /\ Len(siblings) > 1 => _exists(siblings)
    /\ op.name = "exists" =>
          ret = Return(PyBool(~(\/ Len(siblings) = 0
                                \/ Len(siblings) = 1 /\ ~siblings[1].exists)))

C6_Witness ==
    /\ op.name = "exists"
    /\ Len(siblings) > 1
    /\ \A i \in 1..Len(siblings) : ~siblings[i].exists
    /\ ret = Return(PyBool(TRUE))

\* C7: setting a property of an object with no sibling makes one fresh
\* sibling and sets the property of it: no error, and one sibling
\* afterwards.  Reading a property of an object with no sibling returns
\* None, raises nothing and leaves the object with no sibling.
C7_EmptySetMaterializesGetReturnsNone ==
    /\ (op.name = "set" /\ preLen = 0) =>
          /\ ret = Return(PyNone)
          /\ siblings =
                << [RiakContent EXCEPT ![op.args.name] = op.args.value] >>
    /\ (op.name = "get" /\ preLen = 0) =>
          /\ ret = Return(PyNone)
          /\ Len(siblings) = 0

C7_Witness ==
    /\ op.name = "set"
    /\ preLen = 0
    /\ op.args.value = PyStr("a")
    /\ Len(siblings) = 1
    /\ siblings[1].data = PyStr("a")

\* C8: on an object with one sibling, a property getter raises no
\* ConflictError and returns the value last set for that property on the
\* sibling, through the object or on the sibling itself, since the siblings
\* were last replaced.
C8_GetReturnsLastSet ==
    (op.name = "get" /\ preLen = 1) =>
        /\ ret.err = "none"
        /\ lastSet[op.args.name].known =>
              ret.val = lastSet[op.args.name].val

C8_Witness ==
    /\ op.name = "get"
    /\ preLen = 1
    /\ op.args.name = "content_type"
    /\ lastSet["content_type"].known
    /\ lastSet["data"].known
    /\ lastSet["data"].val # lastSet["content_type"].val
    /\ ret = Return(PyStr("text/plain"))

\* ------------------------------------------------------------------------
\* Properties of two objects compared (SpecEq)

\* Two vclocks hold the same bytes (None is equal to None only).
SameBytes(a, b) ==
    /\ (a = NoVClock) = (b = NoVClock)
    /\ a._vclock = b._vclock

\* C9 as claimed: two objects are equal exactly when their keys, their
\* buckets and their vclocks are equal, the vclocks being equal when they
\* hold the same bytes.
C9_EqualIffKeyBucketVClock ==
    (op.name = "__eq__" /\ IsInstance(other)) =>
        ret.val = PyBool(/\ key = other.key
                         /\ bucket = other.bucket
                         /\ SameBytes(vclock, other.vclock))

\* C10 as claimed: two vclocks are equal exactly when they hold the same
\* bytes, whatever encoding each was made from and whether or not they are
\* the same object.
C10_VClocksEqualIffSameBytes ==
    (op.name = "vclock.__eq__" /\ vclock # NoVClock
        /\ other.vclock # NoVClock) =>
        ret.val = PyBool(vclock._vclock = other.vclock._vclock)

\* The object as constructed: one fresh sibling, no vclock, no resolver.
NewObject ==
    op.name = "__init__" =>
        /\ siblings = << RiakContent >>
        /\ vclock = NoVClock
        /\ _resolver = PyNone

\* data and content_type were set on the sole sibling of an object that
\* was never filled in by the client.
SetNotFetched ==
    /\ Len(siblings) = 1
    /\ vclock = NoVClock
    /\ lastSet["data"].known
    /\ lastSet["content_type"].known

\* C15: an object is constructed with one fresh sibling, no vclock and no
\* resolver.  When data and content_type were set on it and it was never
\* fetched, store is not refused: it calls client.put, handing over the
\* object with its one sibling, which carries the data and the content type
\* set, and unless the client fills the object in with what Riak holds,
\* the object keeps that one sibling.
C15_NewObjectStores ==
    /\ NewObject
    /\ [][(op'.name = "store" /\ SetNotFetched) =>
            /\ ret'.err # "ConflictError"
            /\ calls' = << Call("put", PutKwargs(op'.args)) >>
            /\ siblings[1].data = lastSet["data"].val
            /\ siblings[1].content_type = lastSet["content_type"].val
            /\ \A out \in PutOutcomes(op'.args) :
                  (out.kind # "filled" /\ store(op'.args, out))
                      => siblings' = siblings]_vars

C15_Witness ==
    /\ op.name = "store"
    /\ preLen = 1
    /\ ret = Return(Self)
    /\ vclock = NoVClock
    /\ Len(siblings) = 1
    /\ siblings[1].data = PyStr("a")
    /\ siblings[1].content_type = PyStr("text/plain")
    /\ lastSet["data"] = [known |-> TRUE, val |-> PyStr("a")]
    /\ lastSet["content_type"] = [known |-> TRUE, val |-> PyStr("text/plain")]

\* C16: delete invalidates the vclock: after a delete that returned, the
\* object no longer holds the vclock it held before, so that a store after
\* it does not hand that vclock to the client.
C16_DeleteDropsVClock ==
    (op.name = "delete" /\ ret.err = "none") => vclock = NoVClock

\* C17: a getter, a setter, a method or store that raises ConflictError on
\* an object in conflict leaves the siblings, the key, the bucket, the
\* vclock and the resolver as they were and makes no call to the client.
C17_ConflictErrorChangesNothing ==
    [][(/\ op'.name \in Accesses
        /\ ret'.err = "ConflictError"
        /\ Len(siblings) > 1) =>
            /\ siblings' = siblings
            /\ vclock' = vclock
            /\ key' = key
            /\ bucket' = bucket
            /\ _resolver' = _resolver
            /\ calls' = <<>>]_vars

C17_Witness ==
    /\ op.name = "store"
    /\ ret = Raise("ConflictError")
    /\ preLen = 2
    /\ Len(siblings) = 2
    /\ siblings[1] # siblings[2]
    /\ vclock # NoVClock
    /\ calls = <<>>

\* store is not refused.
StorePermitted ==
    ENABLED (\E a \in StoreArgs : \E out \in PutOutcomes(a) :
                store(a, out) /\ ret'.err # "ConflictError")

\* C18: no state is terminal: in every state clear leaves no sibling, with
\* no sibling a setter makes one, and with one sibling store is not
\* refused.
C18_AlwaysRecoverable ==
    /\ ENABLED (clear /\ Len(siblings') = 0)
    /\ Len(siblings) = 0 =>
          ENABLED (_setter("data", PyStr("a")) /\ Len(siblings') = 1)
    /\ Len(siblings) = 1 => StorePermitted

C18_Witness ==
    /\ op.name = "set"
    /\ preLen = 0
    /\ ret = Return(PyNone)
    /\ vclock # NoVClock
    /\ Len(siblings) = 1
    /\ StorePermitted

\* C20: a method of the sibling called on an object without siblings
\* raises ConflictError and makes no sibling; a method returns only when
\* the object held one sibling.
C20_MethodOnEmptyRaises ==
    /\ (op.name = "call" /\ preLen = 0) =>
          ret = Raise("ConflictError") /\ Len(siblings) = 0
    /\ (op.name = "call" /\ ret.err = "none") =>
          preLen = 1 /\ Len(siblings) = 1

C20_Witness ==
    /\ op.name = "call"
    /\ op.args.name = "add_index"
    /\ preLen = 0
    /\ ret = Raise("ConflictError")
    /\ Len(siblings) = 0

\* ------------------------------------------------------------------------
\* Properties of the object used without its client (SpecLocal)

\* C19: construction, the getters and setters, the methods of the sibling,
\* reading and setting the resolver, exists and clear never leave more
\* than one sibling in an object that had at most one.
C19_LocalOperationsKeepAtMostOne == Len(siblings) \in {0, 1}

C19_Witness ==
    /\ op.name = "set"
    /\ preLen = 0
    /\ Len(siblings) = 1
    /\ _resolver = PickB

\* ------------------------------------------------------------------------
\* Properties of VClock (SpecVClock)

\* A vector clock decoded from what another encodes holds the bytes of
\* that other, whatever the encoding.
RoundTripKeepsBytes ==
    op.name = "roundtrip" => other.vclock._vclock = vclock._vclock

\* C11: a vector clock made by encoding a vector clock in a supported
\* encoding and decoding what comes out is equal (==) to the vector clock
\* encoded.
C11_RoundTripEqual ==
    op.name = "roundtrip" => ret = Return(PyBool(TRUE))

\* The error the model of the system names InvalidEncoding: the
\* ValueError that encode raises for an encoding it does not have.
InvalidEncoding == "ValueError"

\* C12: decoding with an encoding VClock does not have and encoding with
\* one both fail with the same error, InvalidEncoding; no vector clock is
\* made and no bytes are returned.
C12_UnsupportedEncodingSameError ==
    (op.name \in {"VClock", "encode"} /\ op.args.encoding \notin Encodings)
        => ret = Raise(InvalidEncoding)

\* ------------------------------------------------------------------------
\* Properties of the resolver (SpecResolve)

\* What the resolver holds and what reading and setting it gave.
ResolverState ==
    /\ _resolver = PyNone \/ callable(_resolver)
    /\ op.name = "resolver.get" =>
          ret = Return(IF _resolver # PyNone THEN _resolver
                       ELSE bucket_resolver)
    /\ op.name = "resolver.set" =>
          IF op.args.value = PyNone \/ callable(op.args.value)
          THEN ret = Return(PyNone) /\ _resolver = op.args.value
          ELSE ret = Raise("TypeError")

\* C13: reading the resolver gives the resolver of the object when one is
\* set, and otherwise the resolver the bucket has at that moment; setting
\* it to None or to a callable takes effect, setting it to anything else
\* raises TypeError and leaves the resolver as it was; the resolver held
\* is always None or callable.
C13_ResolverFallback ==
    /\ ResolverState
    /\ [][/\ ResolverState'
          /\ (op'.name = "resolver.set" /\ ret'.err = "TypeError")
                => _resolver' = _resolver]_vars

C13_Witness ==
    /\ op.name = "resolver.set"
    /\ op.args.value = NotCallable
    /\ ret = Raise("TypeError")
    /\ _resolver = PickB
    /\ bucket_resolver = PyNone

\* What holds of a conflict that was fetched, resolved and stored.
SceneState ==
    /\ (scene.stage = "conflicted" /\ op.name = "get")
          => ret = Raise("ConflictError")
    /\ scene.stage = "resolved" =>
          /\ siblings = scene.s
          /\ Len(siblings) = 1
          /\ vclock = scene.T
          /\ op.name = "get" => ret = Return(scene.s[1].data)
    /\ (scene.stage = "stored" /\ op.name = "store") =>
          /\ ret.err \in {"none", "TransportError"}
          /\ ret.err = "none" => ret.val = Self
          /\ calls = << Call("put", PutKwargs(op.args)) >>

\* C14: after a reload that fetched two siblings of different data and the
\* vclock T, reading data raises ConflictError; once a resolver that leaves
\* one of these siblings is set and resolution is invoked, the object holds
\* that sibling alone and reading data returns its data; store then is not
\* refused, and the object it hands to client.put holds the vclock T and
\* that sibling.
C14_ResolveThenStore ==
    /\ SceneState
    /\ [][/\ SceneState'
          /\ (scene.stage = "resolved" /\ op'.name = "store") =>
                /\ vclock = scene.T
                /\ siblings = scene.s
                /\ calls' # <<>>
                /\ ret'.err # "ConflictError"]_vars

C14_Witness ==
    /\ scene.stage = "stored"
    /\ op.name = "store"
    /\ ret = Return(Self)
    /\ _resolver = PickB
    /\ bucket_resolver = KeepLast
    /\ scene.s[1].data = PyStr("b")
    /\ scene.T # NoVClock
    /\ vclock = scene.T

====
